---- MODULE Spec2Model ----
(***************************************************************************)
(* State-machine model of the research result caching and normalization    *)
(* pipeline of simplified_TSAT: the cache store, the endpoint registry     *)
(* lookup, the structured-text parser and the research orchestrator, in    *)
(* the three researcher classes the repository carries:                    *)
(*   "root"  : src/tool_researcher.py            SoftwareUpdateResearchAgent *)
(*   "core"  : src/core/tool_researcher.py       SoftwareUpdateResearchAgent *)
(*   "final" : src/core/tool_researcher_final.py SoftwareUpdateResearcher    *)
(* Python str values are TLA+ strings, Python dicts are records (a key is  *)
(* present iff it is in the DOMAIN), Python lists and tuples are sequences.*)
(* Time is counted in days; a date string is the 4-digit day number, the   *)
(* fixed-width stand-in for strftime("%Y-%m-%d").                          *)
(***************************************************************************)
EXTENDS Integers, Sequences, FiniteSets, TLC

\* ------------------------------------------------------------------ bounds
StartDay == 9000
MaxTicks == 1
MaxDuration == 1
MaxPuts == 2
MaxCalls == 2
MaxTools == 2
MaxPieces == 4
MaxLines == 2

VARIABLES
  variant,        \* which researcher class the instance is
  cache_duration, \* self.cache_duration, in days
  now,            \* datetime.now(), in days
  cache,          \* data/research_cache: file name (cache key) -> document
  calls,          \* in-flight research_tool_updates invocations, by caller
  ncalls,         \* invocations started so far
  nputs,          \* direct cache writes made so far
  got,            \* the last direct cache read: request and value returned
  disk,           \* whether writes to the cache directory can fail
  requests,       \* the requests callers make of research_tool_updates
  stack,          \* the research_tool_stack run
  last_put,       \* history: per tool and date range, the last write made
  pieces,         \* the lines and delimiters of a research output text
  parser_out      \* what _parse_agent_output returned for that text

vars == <<variant, cache_duration, now, cache, calls, ncalls, nputs, got, disk, requests, stack,
          last_put, pieces, parser_out>>

Variants == {"root", "core", "final"}

\* ----------------------------------------------------- Python str methods
None == [none |-> TRUE]

Whitespace == {" ", "\t", "\n", "\r"}

LowerChar(c) ==
  CASE c = "A" -> "a" [] c = "B" -> "b" [] c = "C" -> "c" [] c = "D" -> "d"
    [] c = "E" -> "e" [] c = "F" -> "f" [] c = "G" -> "g" [] c = "H" -> "h"
    [] c = "I" -> "i" [] c = "J" -> "j" [] c = "K" -> "k" [] c = "L" -> "l"
    [] c = "M" -> "m" [] c = "N" -> "n" [] c = "O" -> "o" [] c = "P" -> "p"
    [] c = "Q" -> "q" [] c = "R" -> "r" [] c = "S" -> "s" [] c = "T" -> "t"
    [] c = "U" -> "u" [] c = "V" -> "v" [] c = "W" -> "w" [] c = "X" -> "x"
    [] c = "Y" -> "y" [] c = "Z" -> "z" [] OTHER -> c

RECURSIVE Lower(_)
Lower(s) == IF s = "" THEN "" ELSE LowerChar(Head(s)) \o Lower(Tail(s))

RECURSIVE ReplaceChar(_, _, _)
ReplaceChar(s, old, new) ==
  IF s = "" THEN ""
  ELSE (IF Head(s) = old THEN new ELSE Head(s)) \o ReplaceChar(Tail(s), old, new)

RECURSIVE LStrip(_)
LStrip(s) == IF s # "" /\ Head(s) \in Whitespace THEN LStrip(Tail(s)) ELSE s

RECURSIVE RStrip(_)
RStrip(s) ==
  IF s # "" /\ SubSeq(s, Len(s), Len(s)) \in Whitespace
  THEN RStrip(SubSeq(s, 1, Len(s) - 1)) ELSE s

Strip(s) == RStrip(LStrip(s))

\* index of the first occurrence of sub in s at or after position i, 0 if none
RECURSIVE FindFrom(_, _, _)
FindFrom(s, sub, i) ==
  IF i + Len(sub) - 1 > Len(s) THEN 0
  ELSE IF SubSeq(s, i, i + Len(sub) - 1) = sub THEN i
  ELSE FindFrom(s, sub, i + 1)

Contains(s, sub) == FindFrom(s, sub, 1) # 0

\* s.split(sep)
RECURSIVE Split(_, _)
Split(s, sep) ==
  LET i == FindFrom(s, sep, 1) IN
  IF i = 0 THEN <<s>>
  ELSE <<SubSeq(s, 1, i - 1)>> \o Split(SubSeq(s, i + Len(sep), Len(s)), sep)

\* a split that keeps what follows the last separator as second part
Split1AtLast(s, sep) ==
  LET parts == Split(s, sep) IN
  IF Len(parts) = 1 THEN parts ELSE <<parts[1], parts[Len(parts)]>>

\* s.split(sep, 1)
Split1(s, sep) ==
  LET i == FindFrom(s, sep, 1) IN
  IF i = 0 THEN <<s>>
  ELSE <<SubSeq(s, 1, i - 1), SubSeq(s, i + Len(sep), Len(s))>>

Digit(d) ==
  CASE d = 0 -> "0" [] d = 1 -> "1" [] d = 2 -> "2" [] d = 3 -> "3"
    [] d = 4 -> "4" [] d = 5 -> "5" [] d = 6 -> "6" [] d = 7 -> "7"
    [] d = 8 -> "8" [] d = 9 -> "9"

\* strftime("%Y-%m-%d"): one fixed-width string per day
Strftime(day) ==
  Digit((day \div 1000) % 10) \o Digit((day \div 100) % 10)
    \o Digit((day \div 10) % 10) \o Digit(day % 10)

\* dict.get(key), for a key whose values are dicts
DictGet(d, key) == IF key \in DOMAIN d THEN d[key] ELSE None

\* ------------------------------------------------------------ cache store
\* core: _normalize_tool_name
_normalize_tool_name(tool_name) == ReplaceChar(Strip(Lower(tool_name)), " ", "_")

\* root and final: the inline key expression of the read path
LoadKey(tool_name, date_range) ==
  ReplaceChar(Lower(tool_name), " ", "_") \o "_" \o date_range[1] \o "_" \o date_range[2]

\* the write-path key without lower()
SaveKeyCaseKept(tool_name, date_range) ==
  ReplaceChar(tool_name, " ", "_") \o "_" \o date_range[1] \o "_" \o date_range[2]

\* root and final: the inline key expression of the write path
SaveKey(tool_name, date_range) ==
  ReplaceChar(Lower(tool_name), " ", "_") \o "_" \o date_range[1] \o "_" \o date_range[2]

\* the file the read path opens
LoadFile(v, tool_name, date_range) ==
  IF v = "core" THEN _normalize_tool_name(tool_name) ELSE LoadKey(tool_name, date_range)

\* the file the write path opens
SaveFile(v, tool_name, date_range) ==
  IF v = "core" THEN _normalize_tool_name(tool_name) ELSE SaveKey(tool_name, date_range)

\* the freshness test with the window included
IsFreshInclusive(t, cached_at, duration) == t - cached_at <= duration

\* datetime.now() - cached_time < self.cache_duration
IsFresh(t, cached_at, duration) == t - cached_at < duration

\* the range test on the end date alone
RangeMatchesEndOnly(doc, date_range) ==
  "date_range" \in DOMAIN doc /\ doc.date_range[2] = date_range[2]

\* core: cached.get('date_range') == list(date_range)
RangeMatches(doc, date_range) ==
  "date_range" \in DOMAIN doc /\ doc.date_range = date_range

\* a file whose content json.load rejects
InvalidJson == [invalid |-> TRUE]

\* the day of the default of data.get('cached_at', ...): '1970-01-01' in
\* root, '2000-01-01' in core, both long before any clock reading here
Epoch == 0

\* json.load and datetime.fromisoformat of the document's cached_at inside
\* the try block: the day, or the exception that the except swallows. A
\* document with the field bad_cached_at has a cached_at that is not an ISO
\* date; final subscripts cached_data['cached_at'], root and core use get
\* with a default.
CachedTime(v, doc) ==
  IF "invalid" \in DOMAIN doc THEN [raised |-> "JSONDecodeError"]
  ELSE IF "bad_cached_at" \in DOMAIN doc THEN [raised |-> "ValueError"]
  ELSE IF "cached_at" \notin DOMAIN doc
  THEN (IF v = "final" THEN [raised |-> "KeyError"] ELSE [day |-> Epoch])
  ELSE [day |-> doc.cached_at]

\* final: cached_result['results'] of a document without that key
KeyError == [raised |-> "KeyError: 'results'"]

\* what the read hands over of a fresh document: data.get('results') in
\* root and core; in final _check_cache returns the document and the caller
\* subscripts ['results']
LoadResults(v, doc) ==
  IF v = "final" /\ "results" \notin DOMAIN doc THEN KeyError
  ELSE DictGet(doc, "results")

\* _load_cache (root, core) and _check_cache followed by the ['results']
\* subscript of its caller (final): the stored result, or None
_load_cache(v, files, t, duration, tool_name, date_range) ==
  LET file == LoadFile(v, tool_name, date_range) IN
  IF file \notin DOMAIN files THEN None
  ELSE LET doc == files[file]
           cached_time == CachedTime(v, doc)
       IN IF "raised" \in DOMAIN cached_time THEN None
          ELSE IF ~IsFresh(t, cached_time.day, duration) THEN None
          ELSE IF v = "core" /\ ~RangeMatches(doc, date_range) THEN None
          ELSE LoadResults(v, doc)

\* the document _save_cache / _save_to_cache serializes
CacheDoc(v, t, tool_name, date_range, results) ==
  IF v = "final"
  THEN [cached_at |-> t, cache_key |-> SaveKey(tool_name, date_range), results |-> results]
  ELSE [cached_at |-> t, tool_name |-> tool_name, date_range |-> date_range,
        results |-> results]

\* _save_cache / _save_to_cache when the write succeeds: the file is replaced
_save_cache(v, files, t, tool_name, date_range, results) ==
  LET file == SaveFile(v, tool_name, date_range) IN
  [k \in DOMAIN files \cup {file} |->
     IF k = file THEN CacheDoc(v, t, tool_name, date_range, results) ELSE files[k]]

\* ------------------------------------------------------ endpoint registry
\* APIChangelogRegistry: the static table, tool name -> EndpointDescriptor
Registry ==
  [t \in {"Open", "Lock", "NoUrl"} |->
     CASE t = "Open" -> [endpoint |-> "https://open/changelog", auth_required |-> FALSE]
       [] t = "Lock" -> [endpoint |-> "https://lock/changelog", auth_required |-> TRUE]
       [] t = "NoUrl" -> [endpoint |-> "", auth_required |-> TRUE]]

has_api_endpoint(tool_name) == tool_name \in DOMAIN Registry

get_endpoint(tool_name) == DictGet(Registry, tool_name)

\* _research_via_api without the auth_required test
ResearchViaApiNoAuthCheck(endpoint_info, tool_name) ==
  IF endpoint_info = None \/ endpoint_info.endpoint = ""
  THEN [success |-> FALSE, error |-> "No API endpoint available"]
  ELSE [success |-> TRUE, source |-> "api", tool_name |-> tool_name,
        endpoint |-> endpoint_info.endpoint, updates_found |-> <<>>,
        note |-> "API integration not yet implemented - use web research"]

\* _research_via_api
_research_via_api(endpoint_info, tool_name) ==
  IF endpoint_info = None \/ endpoint_info.endpoint = ""
  THEN [success |-> FALSE, error |-> "No API endpoint available"]
  ELSE IF endpoint_info.auth_required
  THEN [success |-> FALSE,
        error |-> "Authentication required but credentials not configured",
        needs_setup |-> TRUE]
  ELSE [success |-> TRUE, source |-> "api", tool_name |-> tool_name,
        endpoint |-> endpoint_info.endpoint, updates_found |-> <<>>,
        note |-> "API integration not yet implemented - use web research"]

\* ---------------------------------------------------- structured-text parser
no_updates_patterns ==
  <<"no public updates found", "no updates found", "could not find",
    "no information available", "no public changelog", "no verifiable updates">>

\* the marker test without lower(): a case-sensitive match
HasNoUpdatesPatternCaseSensitive(output_text) ==
  \E i \in 1..Len(no_updates_patterns) :
     Contains(output_text, no_updates_patterns[i])

HasNoUpdatesPattern(output_text) ==
  \E i \in 1..Len(no_updates_patterns) :
     Contains(Lower(output_text), no_updates_patterns[i])

EmptyDict == <<>>

\* d[key] = value
DictSet(d, key, value) ==
  [k \in DOMAIN d \cup {key} |-> IF k = key THEN value ELSE d[k]]

\* the chain with the url/source test moved to the front
FieldOfSourceFirst(key) ==
  IF Contains(key, "url") \/ Contains(key, "source") THEN "source_url"
  ELSE IF Contains(key, "feature") \/ Contains(key, "name") THEN "feature_name"
  ELSE IF Contains(key, "date") \/ Contains(key, "released") THEN "release_date"
  ELSE IF Contains(key, "description") THEN "description"
  ELSE IF Contains(key, "automation") \/ Contains(key, "value") THEN "automation_value"
  ELSE ""

\* the if/elif chain that maps a lowercased key to the field it sets
FieldOf(key) ==
  IF Contains(key, "feature") \/ Contains(key, "name") THEN "feature_name"
  ELSE IF Contains(key, "date") \/ Contains(key, "released") THEN "release_date"
  ELSE IF Contains(key, "url") \/ Contains(key, "source") THEN "source_url"
  ELSE IF Contains(key, "description") THEN "description"
  ELSE IF Contains(key, "automation") \/ Contains(key, "value") THEN "automation_value"
  ELSE ""

\* the skip test without the colon test
SkipsLineBlankOnly(line) == line = ""

\* "if not line or ':' not in line: continue"
SkipsLine(line) == line = "" \/ ~Contains(line, ":")

\* "key, value = line.split(':', 1)" raises ValueError unless the split gives
\* two parts
LineRaises(raw_line) ==
  LET line == Strip(raw_line) IN
  ~SkipsLine(line) /\ Len(Split1(line, ":")) # 2

\* the line loop of a section that is not skipped raises on one of its lines
SectionRaises(section) ==
  /\ Strip(section) # ""
  /\ LET lines == Split(section, "\n") IN \E i \in 1..Len(lines) : LineRaises(lines[i])

\* nothing in _parse_agent_output catches what the section loop raises
ParserRaises(output_text) ==
  /\ ~HasNoUpdatesPattern(output_text)
  /\ LET sections == Split(output_text, "---") IN
     \E i \in 1..Len(sections) : SectionRaises(sections[i])

\* the line loop with setdefault: the first value of a field is kept
ParseLineFirstWins(update, raw_line) ==
  LET line == Strip(raw_line) IN
  IF line = "" \/ ~Contains(line, ":") THEN update
  ELSE LET kv == Split1(line, ":")
           key == Lower(Strip(kv[1]))
           value == Strip(kv[2])
           field == FieldOf(key)
       IN IF field = "" \/ field \in DOMAIN update THEN update
          ELSE DictSet(update, field, value)

\* the body of "for line in lines": the update dict after one line
ParseLine(update, raw_line) ==
  LET line == Strip(raw_line) IN
  IF SkipsLine(line) THEN update
  ELSE LET kv == Split1(line, ":")
           key == Lower(Strip(kv[1]))
           value == Strip(kv[2])
           field == FieldOf(key)
       IN IF field = "" THEN update ELSE DictSet(update, field, value)

RECURSIVE ParseLines(_, _)
ParseLines(update, lines) ==
  IF lines = <<>> THEN update
  ELSE ParseLines(ParseLine(update, Head(lines)), Tail(lines))

\* the test "'feature_name' in update": an empty name passes
HasFeatureNameKey(update) == "feature_name" \in DOMAIN update

\* update.get('feature_name') is truthy
HasFeatureName(update) == "feature_name" \in DOMAIN update /\ update.feature_name # ""

\* the section loop with updates.insert(0, update)
ParseSectionPrepending(updates, section) ==
  IF Strip(section) = "" THEN updates
  ELSE LET update == ParseLines(EmptyDict, Split(section, "\n")) IN
       IF HasFeatureName(update) THEN <<update>> \o updates ELSE updates

\* the body of "for section in sections": the updates list after one section
ParseSection(updates, section) ==
  IF Strip(section) = "" THEN updates
  ELSE LET update == ParseLines(EmptyDict, Split(section, "\n")) IN
       IF HasFeatureName(update) THEN Append(updates, update) ELSE updates

RECURSIVE ParseSections(_, _)
ParseSections(updates, sections) ==
  IF sections = <<>> THEN updates
  ELSE ParseSections(ParseSection(updates, Head(sections)), Tail(sections))

\* _parse_agent_output up to the end of the section loop
ParseStructured(output_text) ==
  IF HasNoUpdatesPattern(output_text) THEN <<>>
  ELSE ParseSections(<<>>, Split(output_text, "---"))

\* a second pass that runs after a "no results" marker too
NeedsAnalysisAfterMarker(output_text) == ParseStructured(output_text) = <<>>

\* root: whether _parse_agent_output goes on to the second structuring pass
NeedsAnalysis(output_text) ==
  ~HasNoUpdatesPattern(output_text) /\ ParseStructured(output_text) = <<>>

\* root: the updates after the second pass, from what json.loads made of the
\* analysis output
AnalysisUpdates(analysis) ==
  IF analysis.kind = "list" /\ analysis.value # <<>> THEN analysis.value ELSE <<>>

\* ------------------------------------------------- research orchestrator
\* a tool name that is not a str (a tool dict whose name is None)
NoneName == "<None>"

IsStr(tool_name) == tool_name # NoneName

\* f"{start_date} to {end_date}"
RangeText(date_range) == date_range[1] \o " to " \o date_range[2]

\* d.setdefault-style "if key not in parsed: parsed[key] = value"
DictDefault(d, key, value) == IF key \in DOMAIN d THEN d ELSE DictSet(d, key, value)

\* the result with success tied to the presence of updates
WebSuccessOnlyWithUpdates(c, updates, raw_output, t) ==
  [success |-> updates # <<>>, source |-> "web_search", tool_name |-> c.tool_name,
   tool_type |-> c.tool_type, date_range |-> RangeText(c.date_range),
   research_depth |-> c.depth, updates |-> updates, raw_output |-> raw_output,
   timestamp |-> t]

\* root, final: the dict _research_via_web returns after parsing
WebSuccess(c, updates, raw_output, t) ==
  [success |-> TRUE, source |-> "web_search", tool_name |-> c.tool_name,
   tool_type |-> c.tool_type, date_range |-> RangeText(c.date_range),
   research_depth |-> c.depth, updates |-> updates, raw_output |-> raw_output,
   timestamp |-> t]

\* the except branch without the 'updates' key
WebFailureNoUpdates(v, c, message) ==
  [success |-> FALSE, tool_name |-> c.tool_name, source |-> "web_research",
   error |-> message]

\* the dict the "except Exception as e" of _research_via_web returns
WebFailure(v, c, message) ==
  IF v = "core"
  THEN [success |-> FALSE, tool_name |-> c.tool_name, source |-> "web_research",
        error |-> message, updates |-> <<>>]
  ELSE [success |-> FALSE, error |-> message, tool_name |-> c.tool_name,
        updates |-> <<>>]

\* core: the dict _research_via_web returns for a research output, given what
\* re.search and json.loads make of its text
CoreWebResult(c, output) ==
  IF output.json.kind = "invalid"
  THEN [success |-> FALSE, tool_name |-> c.tool_name, source |-> "web_research",
        error |-> "JSON parse error: " \o output.json.message,
        raw_output |-> output.raw]
  ELSE LET parsed == IF output.json.kind = "dict" THEN output.json.value
                     ELSE [success |-> FALSE, error |-> "Could not parse result as JSON"]
       IN DictDefault(DictDefault(DictDefault(DictDefault(parsed,
            "success", TRUE), "tool_name", c.tool_name), "source", "web_research"),
            "updates", <<>>)

\* the API result is never taken: the web research always follows
AfterApiAlwaysWeb(api_results) == "web"

\* "if api_results['success']": a successful API result is cached and
\* returned, any other falls back to the web research
AfterApi(api_results) == IF api_results.success THEN "save" ELSE "web"

\* a hit test that lets a cached failure be researched again
CacheHitSuccessOnly(cached) == cached # None /\ cached # <<>> /\ cached.success

\* "if cached_results:" / "if cached_result:"
CacheHit(cached) == cached # None /\ cached # EmptyDict

\* only a successful research is cached
AfterResearchSuccessOnly(result) == IF result.success THEN "save" ELSE "returned"

\* where research_tool_updates goes once it holds the result of the research
AfterResearch(result) == "save"

\* except Exception as e, in the loop of research_tool_stack
StackFailure(message) == [success |-> FALSE, error |-> message]

\* the loop without its try/except: the fault leaves research_tool_stack
StackOnFaultUncaught(results, tool_name, message) ==
  [results |-> results, goes_on |-> FALSE]

\* the research_tool_stack loop after a fault in one tool: the results so far
\* and whether the loop goes on
StackOnFault(results, tool_name, message) ==
  [results |-> DictSet(results, tool_name, StackFailure(message)), goes_on |-> TRUE]

\* --------------------------------------------------------------- inputs
Day0 == Strftime(StartDay)

DateRanges ==
  {<<Strftime(StartDay - 730), Day0>>, <<Strftime(StartDay - 365), Day0>>,
   <<Strftime(StartDay - 730), Strftime(StartDay - 365)>>}

\* tool names of direct cache reads and writes
CacheNames == {"A b", "a_b", "A\tb"}

\* requests of research_tool_updates: tool name, tool type, date range,
\* depth (final takes the date range from the clock); one tool that is not
\* in the registry, one with an open endpoint, one that requires auth
Requests ==
  {<<"A b", "crm", <<Strftime(StartDay - 730), Day0>>, "quick">>,
   <<"Open", "crm", <<Strftime(StartDay - 730), Day0>>, "quick">>,
   <<"Lock", "crm", <<Strftime(StartDay - 730), Day0>>, "quick">>}

NoJson == [kind |-> "nomatch"]

SectionsText == "Feature Name: Webhooks\nRelease Date: 2024-03\n---\nFeature Name: OAuth\n"

\* what crew.kickoff() can return for the research task: the text, and what
\* re.search(r'\{.*\}') and json.loads yield for it
TextOutputs ==
  {[raw |-> SectionsText, json |-> NoJson],
   [raw |-> "No public updates found for the tool", json |-> NoJson],
   [raw |-> "I looked around", json |-> NoJson]}

JsonOutputs ==
  {[raw |-> "{\"updates\": [{\"feature_name\": \"SSO\"}]}",
    json |-> [kind |-> "dict", value |-> [updates |-> <<[feature_name |-> "SSO"]>>]]],
   [raw |-> "{\"success\": false, \"updates\": [{\"description\": \"x\"}]}",
    json |-> [kind |-> "dict",
              value |-> [success |-> FALSE, updates |-> <<[description |-> "x"]>>]]],
   [raw |-> "{oops}", json |-> [kind |-> "invalid", message |-> "Expecting property name"]]}

\* the research task of core asks for a JSON object, that of root and final
\* for delimited sections
ResearchOutputs(v) == IF v = "core" THEN TextOutputs \cup JsonOutputs ELSE TextOutputs

\* final: the lookback_years callers pass (the default)
LookbackYears == {2}

\* str(e) of what crew.kickoff() can raise
ErrorMessages == {"", "rate limit exceeded"}

\* root: what json.loads makes of the output of the analysis task
AnalysisOutputs ==
  {[kind |-> "invalid"],
   [kind |-> "list", value |-> <<[feature_name |-> "SSO", release_date |-> "2024-Q1"]>>],
   [kind |-> "list", value |-> <<[description |-> "x"]>>]}

\* the subject of a cache write: the tool name, lowercased with ' ' replaced
\* by '_', and the date range
Subject(tool_name, date_range) == <<ReplaceChar(Lower(tool_name), " ", "_"), date_range>>

\* the history of writes after a write that went through at time t
Remember(history, t, tool_name, date_range, results) ==
  DictSet(history, Subject(tool_name, date_range), [cached_at |-> t, results |-> results])

\* -------------------------------------------------------------- actions
Idle == [pc |-> "idle"]

Callers == DOMAIN calls

\* the call record with some of its fields replaced or added
With(c, fields) == fields @@ c

Log(c, event) == Append(c.trace, event)

\* the first statements of research_tool_updates, up to the cache read
StartCall(p, tool_name, tool_type, date_range, depth) ==
  calls' = [calls EXCEPT ![p] =
              [pc |-> "load", tool_name |-> tool_name, tool_type |-> tool_type,
               date_range |-> date_range, depth |-> depth, trace |-> <<>>]]

\* a caller invokes research_tool_updates; final computes the date range
\* from lookback_years and the clock
Invoke(p) ==
  /\ stack.pc = "idle"
  /\ calls[p].pc \in {"idle", "returned"}
  /\ ncalls < MaxCalls
  /\ \E q \in requests :
        IF variant = "final"
        THEN \E years \in LookbackYears :
                StartCall(p, q[1], q[2],
                          <<Strftime(now - 365 * years), Strftime(now)>>, q[4])
        ELSE StartCall(p, q[1], q[2], q[3], q[4])
  /\ ncalls' = ncalls + 1
  /\ UNCHANGED <<variant, cache_duration, now, cache, nputs, got, disk, requests, stack,
               last_put, pieces, parser_out>>

\* a read that deletes the file it found and could not use
AfterReadEvicting(v, files, t, duration, tool_name, date_range) ==
  LET file == LoadFile(v, tool_name, date_range) IN
  IF file \in DOMAIN files /\ _load_cache(v, files, t, duration, tool_name, date_range) = None
  THEN [k \in DOMAIN files \ {file} |-> files[k]]
  ELSE files

\* the cache directory after _load_cache / _check_cache: the file is opened
\* with mode 'r' and nothing is written, renamed or deleted
AfterRead(v, files, t, duration, tool_name, date_range) == files

\* cache arguments that tell the depths apart
CacheArgsWithDepth(c) == <<c.tool_name \o " " \o c.depth, c.date_range>>

\* the arguments research_tool_updates passes to the cache read and the
\* cache write: the tool name and the date range
CacheArgs(c) == <<c.tool_name, c.date_range>>

\* "Check cache first": the cache read and the return on a hit; a tool name
\* that is not a str has no lower() and the call raises, and so does, in
\* final, the subscript of a fresh document without 'results'
LoadStep(p) ==
  LET c == calls[p] IN
  /\ c.pc = "load"
  /\ cache' = IF IsStr(c.tool_name)
              THEN AfterRead(variant, cache, now, cache_duration,
                             CacheArgs(c)[1], CacheArgs(c)[2])
              ELSE cache
  /\ IF ~IsStr(c.tool_name)
     THEN calls' = [calls EXCEPT ![p] =
                      With(c, [pc |-> "raised",
                               error |-> "'NoneType' object has no attribute 'lower'"])]
     ELSE LET cached == _load_cache(variant, cache, now, cache_duration,
                                    CacheArgs(c)[1], CacheArgs(c)[2])
          IN IF cached = KeyError
             THEN calls' = [calls EXCEPT ![p] =
                              With(c, [pc |-> "raised", error |-> "'results'",
                                       trace |-> Log(c, "load")])]
             ELSE IF CacheHit(cached)
             THEN calls' = [calls EXCEPT ![p] =
                              With(c, [pc |-> "returned", cached |-> cached,
                                       result |-> cached, trace |-> Log(c, "load")])]
             ELSE calls' = [calls EXCEPT ![p] =
                              With(c, [pc |-> IF variant = "final" THEN "web" ELSE "registry",
                                       cached |-> cached, trace |-> Log(c, "load")])]
  /\ UNCHANGED <<variant, cache_duration, now, ncalls, nputs, got, disk, requests, stack,
               last_put, pieces, parser_out>>

\* "Step 1: Check if tool has API endpoint" (root, core)
RegistryStep(p) ==
  LET c == calls[p] IN
  /\ c.pc = "registry"
  /\ IF has_api_endpoint(c.tool_name)
     THEN LET api_results == _research_via_api(get_endpoint(c.tool_name), c.tool_name) IN
          IF AfterApi(api_results) = "save"
          THEN calls' = [calls EXCEPT ![p] =
                           With(c, [pc |-> "save", result |-> api_results,
                                    trace |-> c.trace \o <<"registry", "api">>])]
          ELSE calls' = [calls EXCEPT ![p] =
                           With(c, [pc |-> "web", api_results |-> api_results,
                                    trace |-> c.trace \o <<"registry", "api">>])]
     ELSE calls' = [calls EXCEPT ![p] =
                      With(c, [pc |-> "web", trace |-> Log(c, "registry")])]
  /\ UNCHANGED <<variant, cache_duration, now, cache, ncalls, nputs, got, disk, requests, stack,
               last_put, pieces, parser_out>>

\* a failed web research gives way to the failure of the API branch
FinalResultKeepsApiFailure(c, web_results) ==
  IF "api_results" \in DOMAIN c /\ ~web_results.success THEN c.api_results ELSE web_results

\* "Step 2": what research_tool_updates saves and returns after the web
\* research is web_results, whatever the API branch gave before
FinalResult(c, web_results) == web_results

\* _research_via_web: crew.kickoff() raises or returns, and the output is
\* parsed; root goes on to the analysis task when the sections gave nothing
KickoffStep(p) ==
  LET c == calls[p] IN
  /\ c.pc = "web"
  /\ \/ \E message \in ErrorMessages :
          LET result == FinalResult(c, WebFailure(variant, c, message)) IN
          calls' = [calls EXCEPT ![p] =
                      With(c, [pc |-> AfterResearch(result), result |-> result,
                               raised |-> TRUE, message |-> message,
                               trace |-> Log(c, "kickoff")])]
     \/ \E output \in ResearchOutputs(variant) :
          IF variant = "core"
          THEN LET result == FinalResult(c, CoreWebResult(c, output)) IN
               calls' = [calls EXCEPT ![p] =
                           With(c, [pc |-> AfterResearch(result), result |-> result,
                                    raised |-> FALSE, output |-> output,
                                    trace |-> Log(c, "kickoff")])]
          ELSE IF variant = "root" /\ NeedsAnalysis(output.raw)
          THEN calls' = [calls EXCEPT ![p] =
                           With(c, [pc |-> "analysis", raised |-> FALSE, output |-> output,
                                    trace |-> Log(c, "kickoff")])]
          ELSE LET result == FinalResult(c, WebSuccess(c, ParseStructured(output.raw),
                                                       output.raw, now)) IN
               calls' = [calls EXCEPT ![p] =
                           With(c, [pc |-> AfterResearch(result), result |-> result,
                                    raised |-> FALSE, output |-> output,
                                    trace |-> Log(c, "kickoff")])]
  /\ UNCHANGED <<variant, cache_duration, now, cache, ncalls, nputs, got, disk, requests, stack,
               last_put, pieces, parser_out>>

\* root: "If no structured parsing worked, try the old method": the analysis
\* task raises (caught) or returns, and _research_via_web builds its result
AnalysisStep(p) ==
  LET c == calls[p] IN
  /\ c.pc = "analysis"
  /\ \E failed \in BOOLEAN : \E analysis \in AnalysisOutputs :
        LET updates == IF failed THEN <<>> ELSE AnalysisUpdates(analysis)
            result == FinalResult(c, WebSuccess(c, updates, c.output.raw, now))
        IN calls' = [calls EXCEPT ![p] =
                       With(c, [pc |-> AfterResearch(result), result |-> result,
                                trace |-> Log(c, "analysis")])]
  /\ UNCHANGED <<variant, cache_duration, now, cache, ncalls, nputs, got, disk, requests, stack,
               last_put, pieces, parser_out>>

\* what a write to the cache directory can come to: the document is
\* written; open() fails and the file stays as it was; json.dump fails after
\* open() truncated the file, which is left with no valid JSON in it
WriteOutcomes(d) == IF d = "flaky" THEN {"written", "refused", "truncated"} ELSE {"written"}

\* the cache directory after _save_cache / _save_to_cache
AfterWrite(v, files, t, tool_name, date_range, results, outcome) ==
  CASE outcome = "written" -> _save_cache(v, files, t, tool_name, date_range, results)
    [] outcome = "refused" -> files
    [] outcome = "truncated" ->
         DictSet(files, SaveFile(v, tool_name, date_range), InvalidJson)

\* a write whose failure is not caught
WriteReturnsUncaught(outcome) == IF outcome = "written" THEN "returned" ELSE "raised"

\* "except Exception as e: print(...)" in _save_cache / _save_to_cache:
\* whatever the write came to, research_tool_updates goes on to its return
WriteReturns(outcome) == "returned"

\* "Save to cache" and the return that follows it
SaveStep(p) ==
  LET c == calls[p] IN
  /\ c.pc = "save"
  /\ \E outcome \in WriteOutcomes(disk) :
        /\ cache' = AfterWrite(variant, cache, now, CacheArgs(c)[1], CacheArgs(c)[2],
                               c.result, outcome)
        /\ last_put' = IF outcome = "written"
                       THEN Remember(last_put, now, c.tool_name, c.date_range, c.result)
                       ELSE last_put
        /\ calls' = [calls EXCEPT ![p] =
                       With(c, [pc |-> WriteReturns(outcome), saved |-> c.result,
                                written |-> (outcome = "written"), outcome |-> outcome,
                                trace |-> Log(c, "save")])]
  /\ UNCHANGED <<variant, cache_duration, now, ncalls, nputs, got, disk, requests, stack, pieces, parser_out>>

\* a file that open(cache_file, 'w') has just truncated
EmptyFile == [invalid |-> TRUE, empty |-> TRUE]

\* a file that holds the start of one document and the end of another
TornFile == [invalid |-> TRUE, torn |-> TRUE]

\* "with open(cache_file, 'w') as f": the first half of a cache write, as
\* other callers can see it: the file exists and is empty
SaveOpen(p) ==
  LET c == calls[p] IN
  /\ c.pc = "save"
  /\ cache' = DictSet(cache, SaveFile(variant, c.tool_name, c.date_range), EmptyFile)
  /\ calls' = [calls EXCEPT ![p] = With(c, [pc |-> "dump", trace |-> Log(c, "save")])]
  /\ UNCHANGED <<variant, cache_duration, now, ncalls, nputs, got, disk, requests, stack,
               last_put, pieces, parser_out>>

\* what the file can hold once json.dump has written the document at the
\* start of a file: the document, when the file was still empty or the
\* bytes in it were the same; otherwise the document, or its bytes followed
\* by the end of the longer content another writer put there meanwhile
DumpContents(content, doc) ==
  IF content = EmptyFile \/ content = doc THEN {doc} ELSE {doc, TornFile}

\* "json.dump(..., f)" and the close of the file, then the return
SaveDump(p) ==
  LET c == calls[p]
      file == SaveFile(variant, c.tool_name, c.date_range)
      doc == CacheDoc(variant, now, c.tool_name, c.date_range, c.result)
  IN /\ c.pc = "dump"
     /\ \E content \in DumpContents(cache[file], doc) :
           /\ cache' = DictSet(cache, file, content)
           /\ calls' = [calls EXCEPT ![p] =
                          With(c, [pc |-> "returned", saved |-> c.result,
                                   written |-> (content = doc)])]
     /\ last_put' = Remember(last_put, now, c.tool_name, c.date_range, c.result)
     /\ UNCHANGED <<variant, cache_duration, now, ncalls, nputs, got, disk, requests, stack,
                  pieces, parser_out>>

\* a day passes
Tick ==
  /\ now < StartDay + MaxTicks
  /\ now' = now + 1
  /\ got' = None
  /\ UNCHANGED <<variant, cache_duration, cache, calls, ncalls, nputs, disk, requests, stack,
               last_put, pieces, parser_out>>

\* the payload of the n-th direct cache write
PutResult(n, tool_name) ==
  IF n % 2 = 1
  THEN [success |-> TRUE, source |-> "web_search", tool_name |-> tool_name,
        updates |-> <<[feature_name |-> "F" \o Digit(n % 10)]>>]
  ELSE [success |-> FALSE, error |-> "E" \o Digit(n % 10), tool_name |-> tool_name,
        updates |-> <<>>]

\* a direct cache write: _save_cache (root, core), _save_to_cache (final)
CachePut ==
  /\ nputs < MaxPuts
  /\ \E tool_name \in CacheNames, date_range \in DateRanges :
        /\ cache' = _save_cache(variant, cache, now, tool_name, date_range,
                                PutResult(nputs + 1, tool_name))
        /\ last_put' = Remember(last_put, now, tool_name, date_range,
                                PutResult(nputs + 1, tool_name))
  /\ nputs' = nputs + 1
  /\ got' = None
  /\ UNCHANGED <<variant, cache_duration, now, calls, ncalls, disk, requests, stack, pieces, parser_out>>

\* a direct cache read: _load_cache (root, core), _check_cache (final)
CacheGet ==
  /\ \E tool_name \in CacheNames, date_range \in DateRanges :
        /\ got' = [tool_name |-> tool_name, date_range |-> date_range,
                value |-> _load_cache(variant, cache, now, cache_duration,
                                      tool_name, date_range)]
        /\ cache' = AfterRead(variant, cache, now, cache_duration, tool_name, date_range)
  /\ UNCHANGED <<variant, cache_duration, now, calls, ncalls, nputs, disk, requests, stack,
               last_put, pieces, parser_out>>

\* a date range that no request of research_tool_updates here asks for
OtherRange == <<Strftime(StartDay - 365), Day0>>

\* another instance over the same cache directory saves the result of its
\* research of a requested tool for that other date range
OtherSave ==
  /\ \E q \in requests :
        /\ cache' = _save_cache(variant, cache, now, q[1], OtherRange, PutResult(1, q[1]))
        /\ last_put' = Remember(last_put, now, q[1], OtherRange, PutResult(1, q[1]))
  /\ UNCHANGED <<variant, cache_duration, now, calls, ncalls, nputs, got, disk, requests,
               stack, pieces, parser_out>>

\* ------------------------------------------------------------ stack run
\* the tool dicts a stack can hold
ToolDicts ==
  {[name |-> "A b", type |-> "crm"],
   [name |-> NoneName, type |-> "crm"],
   ("Tool Name" :> "Lock") @@ ("Tool Type" :> "crm"),
   EmptyDict}

\* tool.get('name', tool.get('Tool Name', ''))
ToolNameOf(tool) ==
  IF "name" \in DOMAIN tool THEN tool["name"]
  ELSE IF "Tool Name" \in DOMAIN tool THEN tool["Tool Name"] ELSE ""

\* tool.get('type', tool.get('Tool Type', 'unknown'))
ToolTypeOf(tool) ==
  IF "type" \in DOMAIN tool THEN tool["type"]
  ELSE IF "Tool Type" \in DOMAIN tool THEN tool["Tool Type"] ELSE "unknown"

\* r.get('success') is truthy
Succeeded(r) == "success" \in DOMAIN r /\ r.success

ToolLists == UNION {[1..n -> ToolDicts] : n \in 0..MaxTools}

\* research_tool_stack is called: results = {}
StackStart ==
  /\ stack.pc = "idle"
  /\ \E tools \in ToolLists :
        stack' = [pc |-> "loop", tools |-> tools, i |-> 1, results |-> EmptyDict,
                  date_range |-> <<Strftime(StartDay - 730), Day0>>, depth |-> "medium",
                  log |-> <<>>]
  /\ UNCHANGED <<variant, cache_duration, now, cache, calls, ncalls, nputs, got, disk, requests,
               last_put, pieces, parser_out>>

\* the researches started without awaiting the one in flight
StackMayCallEarly(s) == s.pc \in {"loop", "await"}

\* "for tool in tools: ... await self.research_tool_updates(...)": the next
\* research starts when the loop is at the top of an iteration
StackMayCall(s) == s.pc = "loop"

\* a loop that stops before the last tool
LoopDoneEarly(s) == s.i >= Len(s.tools)

\* "for tool in tools" is exhausted
LoopDone(s) == s.i > Len(s.tools)

\* the loop takes the next tool and awaits research_tool_updates for it
StackCall ==
  /\ StackMayCall(stack)
  /\ ~LoopDone(stack)
  /\ StartCall(1, ToolNameOf(stack.tools[stack.i]), ToolTypeOf(stack.tools[stack.i]),
               stack.date_range, stack.depth)
  /\ stack' = [stack EXCEPT !.pc = "await", !.log = Append(@, <<"research", stack.i>>)]
  /\ UNCHANGED <<variant, cache_duration, now, cache, ncalls, nputs, got, disk, requests,
               last_put, pieces, parser_out>>

\* results[tool_name] = research_result
StackRecord ==
  /\ stack.pc = "await"
  /\ calls[1].pc = "returned"
  /\ stack' = [stack EXCEPT !.pc = "sleep",
                 !.results = DictSet(@, ToolNameOf(stack.tools[stack.i]), calls[1].result),
                 !.log = Append(@, <<"recorded", stack.i>>)]
  /\ UNCHANGED <<variant, cache_duration, now, cache, calls, ncalls, nputs, got, disk, requests,
               last_put, pieces, parser_out>>

\* await asyncio.sleep(1), then the next iteration
StackSleep ==
  /\ stack.pc = "sleep"
  /\ stack' = [stack EXCEPT !.pc = "loop", !.i = @ + 1,
                 !.log = Append(@, <<"sleep", stack.i>>)]
  /\ UNCHANGED <<variant, cache_duration, now, cache, calls, ncalls, nputs, got, disk, requests,
               last_put, pieces, parser_out>>

\* the awaited research raised: except Exception as e
StackCatch ==
  /\ stack.pc = "await"
  /\ calls[1].pc = "raised"
  /\ LET after == StackOnFault(stack.results, ToolNameOf(stack.tools[stack.i]),
                               calls[1].error)
     IN stack' = [stack EXCEPT !.pc = IF after.goes_on THEN "loop" ELSE "aborted",
                    !.i = @ + 1, !.results = after.results,
                    !.log = Append(@, <<"failed", stack.i>>)]
  /\ UNCHANGED <<variant, cache_duration, now, cache, calls, ncalls, nputs, got, disk, requests,
               last_put, pieces, parser_out>>

\* the loop is over: the aggregate is built and returned
StackFinish ==
  /\ stack.pc = "loop"
  /\ LoopDone(stack)
  /\ stack' = With(stack,
        [pc |-> "done",
         aggregate |->
           [total_tools |-> Len(stack.tools),
            successful |-> Cardinality({k \in DOMAIN stack.results : Succeeded(stack.results[k])}),
            failed |-> Cardinality({k \in DOMAIN stack.results : ~Succeeded(stack.results[k])}),
            results |-> stack.results,
            date_range |-> RangeText(stack.date_range),
            timestamp |-> now]])
  /\ UNCHANGED <<variant, cache_duration, now, cache, calls, ncalls, nputs, got, disk, requests,
               last_put, pieces, parser_out>>

\* ------------------------------------------------------- research phase
\* tool_inventory.items(): the tools of the CSV, one per name
InventoryNames == {"A b", "Lock", "Open"}

\* tools_to_research: one dict per inventory item, in the order of the dict
ToolsToResearch ==
  {tools \in UNION {[1..n -> InventoryNames] : n \in 0..MaxTools} :
     \A i, j \in 1..Len(tools) : i # j => tools[i] # tools[j]}

\* TechStackAudit._research_phase up to the call of research_tool_stack: the
\* class simple_audit_main imports from core.tool_researcher has no such
\* method and the call raises AttributeError; with the class of
\* src/tool_researcher.py as research agent the stack run starts
PhaseStart ==
  /\ stack.pc = "idle"
  /\ \E names \in ToolsToResearch :
        IF variant = "core"
        THEN stack' = [pc |-> "raised",
                       tools |-> [i \in 1..Len(names) |-> [name |-> names[i], type |-> "crm"]],
                       error |-> "'SoftwareUpdateResearchAgent' object has no attribute 'research_tool_stack'"]
        ELSE stack' = [pc |-> "loop",
                       tools |-> [i \in 1..Len(names) |-> [name |-> names[i], type |-> "crm"]],
                       i |-> 1, results |-> EmptyDict,
                       date_range |-> <<Strftime(now - 730), Strftime(now)>>,
                       depth |-> "medium", log |-> <<>>]
  /\ UNCHANGED <<variant, cache_duration, now, cache, calls, ncalls, nputs, got, disk, requests,
               last_put, pieces, parser_out>>

\* "research_data = research_results.get(tool_name, {})": the lookup is made
\* in the aggregate research_tool_stack returned
ResearchData(research_results, tool_name) ==
  IF tool_name \in DOMAIN research_results THEN research_results[tool_name] ELSE EmptyDict

\* len(analyzed_updates): one analyzed update per update of a successful
\* research_data
UpdateCount(research_data) ==
  IF Succeeded(research_data) /\ "updates" \in DOMAIN research_data
  THEN Len(research_data.updates) ELSE 0

\* "Enhance with feature analysis": the enriched tools are built from the
\* aggregate
PhaseEnrich ==
  /\ stack.pc = "done"
  /\ stack' = With(stack,
        [pc |-> "enriched",
         enriched |->
           [i \in 1..Len(stack.tools) |->
              LET research_data == ResearchData(stack.aggregate, stack.tools[i].name) IN
              [name |-> stack.tools[i].name, type |-> stack.tools[i].type,
               research_result |-> research_data,
               update_count |-> UpdateCount(research_data)]]])
  /\ UNCHANGED <<variant, cache_duration, now, cache, calls, ncalls, nputs, got, disk, requests,
               last_put, pieces, parser_out>>

\* --------------------------------------------------------- parser runs
\* the lines a research output is made of here, each with the field the
\* parser's rule table gives its key and the value after its first colon
OutputLines ==
  {[text |-> "Feature Name: Webhook Support", field |-> "feature_name", value |-> "Webhook Support"],
   [text |-> "Feature Name: OAuth", field |-> "feature_name", value |-> "OAuth"],
   [text |-> "  name :", field |-> "feature_name", value |-> ""],
   [text |-> "Description: something", field |-> "description", value |-> "something"],
   [text |-> "No Updates Found", field |-> "", value |-> ""]}

\* the section delimiter on a line of its own
Delimiter == [text |-> "---", field |-> "", value |-> ""]

\* "\n".join of the pieces
RECURSIVE TextOf(_)
TextOf(ps) ==
  IF ps = <<>> THEN ""
  ELSE IF Len(ps) = 1 THEN ps[1].text
  ELSE ps[1].text \o "\n" \o TextOf(Tail(ps))

\* lines in the "Key: value" format and lines that break it, each with the
\* field the parser's rule table gives its key and the value after its first
\* colon
FieldLines ==
  {[text |-> "Source Name: Webhook Support", field |-> "feature_name", value |-> "Webhook Support"],
   [text |-> "Feature Description: OAuth", field |-> "feature_name", value |-> "OAuth"],
   [text |-> "Source URL: https://host/path", field |-> "source_url", value |-> "https://host/path"],
   [text |-> " Date Source:  Q2 2024 ", field |-> "release_date", value |-> "Q2 2024"],
   [text |-> "Value Description: Saves Time", field |-> "description", value |-> "Saves Time"],
   [text |-> "AUTOMATION Impact: High", field |-> "automation_value", value |-> "High"],
   [text |-> "Notes:", field |-> "", value |-> ""],
   [text |-> ":", field |-> "", value |-> ""],
   [text |-> "plain text", field |-> "", value |-> ""],
   [text |-> "Feature Name: Pre---Release", field |-> "feature_name", value |-> "Pre---Release"],
   [text |-> "---", field |-> "", value |-> ""],
   [text |-> "----", field |-> "", value |-> ""]}

\* the research agent writes one more of these lines
AddField ==
  /\ parser_out = None
  /\ Len(pieces) < MaxLines
  /\ \E piece \in FieldLines : pieces' = Append(pieces, piece)
  /\ UNCHANGED <<variant, cache_duration, now, cache, calls, ncalls, nputs, got, disk, requests,
               stack, last_put, parser_out>>

\* the research agent writes one more line or delimiter
AddPiece ==
  /\ parser_out = None
  /\ Len(pieces) < MaxPieces
  /\ \E piece \in OutputLines \cup {Delimiter} : pieces' = Append(pieces, piece)
  /\ UNCHANGED <<variant, cache_duration, now, cache, calls, ncalls, nputs, got, disk, requests,
               stack, last_put, parser_out>>

\* _parse_agent_output(output_text): the section parser, and in root the
\* second structuring pass when the sections gave no update
ParseOutput ==
  /\ parser_out = None
  /\ LET output_text == TextOf(pieces) IN
     IF ParserRaises(output_text)
     THEN parser_out' = [updates |-> <<>>, second_pass |-> FALSE, raised |-> TRUE]
     ELSE IF variant = "root" /\ NeedsAnalysis(output_text)
     THEN \E failed \in BOOLEAN : \E analysis \in AnalysisOutputs :
             parser_out' = [updates |-> IF failed THEN <<>> ELSE AnalysisUpdates(analysis),
                            second_pass |-> TRUE, raised |-> FALSE]
     ELSE parser_out' = [updates |-> ParseStructured(output_text), second_pass |-> FALSE,
                         raised |-> FALSE]
  /\ UNCHANGED <<variant, cache_duration, now, cache, calls, ncalls, nputs, got, disk, requests,
               stack, last_put, pieces>>

\* ------------------------------------------------------- specifications
\* the state after __init__, with the cache directory empty
Constructed ==
  /\ variant \in Variants
  /\ now = StartDay
  /\ cache = EmptyDict
  /\ calls = [p \in {1} |-> Idle]
  /\ ncalls = 0
  /\ nputs = 0
  /\ got = None
  /\ stack = [pc |-> "idle"]
  /\ last_put = EmptyDict
  /\ pieces = <<>>
  /\ parser_out = None

Init ==
  /\ Constructed
  /\ requests = Requests
  /\ cache_duration = MaxDuration
  /\ disk = "ok"

Invoking == \E p \in Callers : Invoke(p)
Loading == \E p \in Callers : LoadStep(p)
Registering == \E p \in Callers : RegistryStep(p)
KickingOff == \E p \in Callers : KickoffStep(p)
Analysing == \E p \in Callers : AnalysisStep(p)
Saving == \E p \in Callers : SaveStep(p)

\* callers of research_tool_updates, one call at a time
Next ==
  \/ Invoking
  \/ Loading
  \/ Registering
  \/ KickingOff
  \/ Analysing
  \/ Saving
  \/ Tick

Spec == Init /\ [][Next]_vars

\* callers that research tools whose API branch fails: one whose descriptor
\* requires authentication, one whose descriptor has no endpoint
ApiFailureRequests ==
  {<<"Lock", "crm", <<Strftime(StartDay - 730), Day0>>, "quick">>,
   <<"NoUrl", "crm", <<Strftime(StartDay - 730), Day0>>, "quick">>}

InitApi ==
  /\ Constructed
  /\ requests = ApiFailureRequests
  /\ cache_duration = MaxDuration
  /\ disk = "ok"

SpecApi == InitApi /\ [][Next]_vars

\* the same callers on a disk whose writes can fail
InitFlaky ==
  /\ Constructed
  /\ requests = {q \in Requests : q[1] \in {"A b", "Open"}}
  /\ cache_duration = MaxDuration
  /\ disk = "flaky"

SpecFlaky == InitFlaky /\ [][Next]_vars

\* the documents a damaged cache file can hold in place of the document
\* written for a tool and date range: no valid JSON, no cached_at, a
\* cached_at that is no ISO date, no results
DamagedDocs(v, t, tool_name, date_range) ==
  LET doc == CacheDoc(v, t, tool_name, date_range, PutResult(1, tool_name))
      without(key) == [k \in DOMAIN doc \ {key} |-> doc[k]]
  IN {InvalidJson,
      without("cached_at"),
      DictSet(without("cached_at"), "bad_cached_at", TRUE),
      without("results")}

\* callers of an instance constructed over a cache directory that holds a
\* damaged file under the key of the request
InitCorrupt ==
  /\ variant \in Variants
  /\ now = StartDay
  /\ requests = {q \in Requests : q[1] = "A b"}
  /\ \E q \in requests : \E doc \in DamagedDocs(variant, StartDay, q[1], q[3]) :
        cache = DictSet(EmptyDict, LoadFile(variant, q[1], q[3]), doc)
  /\ calls = [p \in {1} |-> Idle]
  /\ ncalls = 0
  /\ nputs = 0
  /\ got = None
  /\ stack = [pc |-> "idle"]
  /\ last_put = EmptyDict
  /\ pieces = <<>>
  /\ parser_out = None
  /\ cache_duration = MaxDuration
  /\ disk = "ok"

SpecCorrupt == InitCorrupt /\ [][Next]_vars

\* requests for one tool that differ in tool type and depth only
RepeatRequests ==
  {<<"A b", "crm", <<Strftime(StartDay - 730), Day0>>, "quick">>,
   <<"A b", "erp", <<Strftime(StartDay - 730), Day0>>, "deep">>}

\* repeated researches of one tool over a cache directory that is empty or
\* holds a damaged file under the key of the requests, and that another
\* instance writes to
InitRepeat ==
  /\ variant \in Variants
  /\ now = StartDay
  /\ requests = RepeatRequests
  /\ \/ cache = EmptyDict
     \/ \E q \in requests : \E doc \in DamagedDocs(variant, StartDay, q[1], q[3]) :
           cache = DictSet(EmptyDict, LoadFile(variant, q[1], q[3]), doc)
  /\ calls = [p \in {1} |-> Idle]
  /\ ncalls = 0
  /\ nputs = 0
  /\ got = None
  /\ stack = [pc |-> "idle"]
  /\ last_put = EmptyDict
  /\ pieces = <<>>
  /\ parser_out = None
  /\ cache_duration = MaxDuration
  /\ disk = "ok"

NextRepeat ==
  \/ Invoking
  \/ Loading
  \/ Registering
  \/ KickingOff
  \/ Analysing
  \/ Saving
  \/ OtherSave
  \/ Tick

SpecRepeat == InitRepeat /\ [][NextRepeat]_vars

\* two callers of one cache directory that run in parallel (threads or
\* processes): nothing in research_tool_updates excludes one from the other
InitRace ==
  /\ variant \in Variants
  /\ now = StartDay
  /\ requests = {q \in Requests : q[1] = "A b"}
  /\ cache = EmptyDict
  /\ calls = [p \in {1, 2} |-> Idle]
  /\ ncalls = 0
  /\ nputs = 0
  /\ got = None
  /\ stack = [pc |-> "idle"]
  /\ last_put = EmptyDict
  /\ pieces = <<>>
  /\ parser_out = None
  /\ cache_duration = MaxDuration
  /\ disk = "ok"

Opening == \E p \in Callers : SaveOpen(p)
Dumping == \E p \in Callers : SaveDump(p)

NextRace ==
  \/ Invoking
  \/ Loading
  \/ Registering
  \/ KickingOff
  \/ Analysing
  \/ Opening
  \/ Dumping
  \/ Tick

SpecRace == InitRace /\ [][NextRace]_vars

\* runs of the parser on research outputs; core has no _parse_agent_output
InitParse ==
  /\ Init
  /\ variant \in {"root", "final"}

NextParse ==
  \/ AddPiece
  \/ ParseOutput

SpecParse == InitParse /\ [][NextParse]_vars

\* runs of the parser on lines of the "Key: value" format
NextFields ==
  \/ AddField
  \/ ParseOutput

SpecFields == InitParse /\ [][NextFields]_vars

\* direct reads and writes of the cache store
NextCache ==
  \/ CachePut
  \/ CacheGet
  \/ Tick

InitCache ==
  /\ Constructed
  /\ requests = {}
  /\ cache_duration \in 1..MaxDuration
  /\ disk = "ok"

SpecCache == InitCache /\ [][NextCache]_vars

\* a stack run; research_tool_stack is a method of the root class only
InitStack == Init /\ variant = "root"

NextStack ==
  \/ StackStart
  \/ StackCall
  \/ Loading
  \/ Registering
  \/ KickingOff
  \/ Analysing
  \/ Saving
  \/ StackRecord
  \/ StackSleep
  \/ StackCatch
  \/ StackFinish

SpecStack == InitStack /\ [][NextStack]_vars

\* the steps of a stack run once research_tool_stack has been called
StackRuns ==
  \/ StackCall
  \/ Loading
  \/ Registering
  \/ KickingOff
  \/ Analysing
  \/ Saving
  \/ StackRecord
  \/ StackSleep
  \/ StackCatch
  \/ StackFinish

\* the research phase of an audit, with the research agent of core (as
\* imported) or of src/tool_researcher.py
InitAudit ==
  /\ Init
  /\ variant \in {"root", "core"}

\* the names of the inventory are strings, so no research of the run raises
NextAudit ==
  \/ PhaseStart
  \/ StackCall
  \/ Loading
  \/ Registering
  \/ KickingOff
  \/ Analysing
  \/ Saving
  \/ StackRecord
  \/ StackSleep
  \/ StackFinish
  \/ PhaseEnrich

SpecAudit == InitAudit /\ [][NextAudit]_vars

\* a stack run on an event loop that keeps running the coroutine, with a
\* research capability whose every invocation returns or raises
SpecStackFair == InitStack /\ [][NextStack]_vars /\ WF_vars(StackRuns)

\* ----------------------------------------------------------- properties
\* the date range a cache document was stored for: its 'date_range', or for
\* final the two fixed-width dates that end its cache_key
DocRange(doc) ==
  IF "date_range" \in DOMAIN doc THEN doc.date_range
  ELSE LET n == Len(doc.cache_key) IN
       <<SubSeq(doc.cache_key, n - 8, n - 5), SubSeq(doc.cache_key, n - 3, n)>>

\* the tool name a cache document was stored for
DocTool(doc) == IF "tool_name" \in DOMAIN doc THEN doc.tool_name ELSE doc.results.tool_name

InTrace(c, event) == \E n \in 1..Len(c.trace) : c.trace[n] = event

\* C1: a direct cache read returns the stored result when the document under
\* the request's key is younger than the freshness window and was stored for
\* the requested date range, and returns None whenever that document's age is
\* the window or more, whatever it holds.
C1_CacheFreshness ==
  got # None =>
    LET file == LoadFile(variant, got.tool_name, got.date_range) IN
    file \in DOMAIN cache =>
      LET doc == cache[file]
          age == now - doc.cached_at
      IN /\ (age < cache_duration /\ DocRange(doc) = got.date_range)
              => got.value = doc.results
         /\ age >= cache_duration => got.value = None

\* a read of a document whose age is exactly the window returned None
C1_Witness ==
  /\ got # None
  /\ LET file == LoadFile(variant, got.tool_name, got.date_range) IN
     /\ file \in DOMAIN cache
     /\ now - cache[file].cached_at = cache_duration
     /\ DocRange(cache[file]) = got.date_range
     /\ got.value = None

\* C2: a cache read that returns a result returns the result of a document
\* whose stored date range equals the requested pair on both endpoints.
C2_DateRangeMatch ==
  (got # None /\ got.value # None) =>
    LET file == LoadFile(variant, got.tool_name, got.date_range) IN
    /\ file \in DOMAIN cache
    /\ DocRange(cache[file]) = got.date_range
    /\ got.value = cache[file].results

\* a fresh document of the same tool whose range shares the end date of the
\* request but not its start date is in the store, and the read returned None
C2_Witness ==
  /\ got # None
  /\ got.value = None
  /\ \E k \in DOMAIN cache :
        /\ now - cache[k].cached_at < cache_duration
        /\ DocTool(cache[k]) = got.tool_name
        /\ DocRange(cache[k])[2] = got.date_range[2]
        /\ DocRange(cache[k])[1] # got.date_range[1]

\* the normalization the specification words: lowercase, every whitespace
\* character replaced by the separator
RECURSIVE SpecNormalize(_)
SpecNormalize(s) ==
  IF s = "" THEN ""
  ELSE (IF Head(s) \in Whitespace THEN "_" ELSE LowerChar(Head(s))) \o SpecNormalize(Tail(s))

\* the normalization of the cache key: lowercase and ' ' replaced by '_',
\* after a strip() in core
CodeNormalize(v, s) ==
  IF v = "core" THEN ReplaceChar(Strip(Lower(s)), " ", "_") ELSE ReplaceChar(Lower(s), " ", "_")

\* C10 as stated: a fresh document stored under a name that is the same once
\* lowercased with whitespace replaced by the separator, for the same date
\* range, is what a read under the other name returns.
C10_AsStated ==
  got # None =>
    \A k \in DOMAIN cache :
      (/\ SpecNormalize(DocTool(cache[k])) = SpecNormalize(got.tool_name)
       /\ DocRange(cache[k]) = got.date_range
       /\ now - cache[k].cached_at < cache_duration)
      => got.value = cache[k].results

\* C10 amended: a fresh document stored under a name that is the same once
\* lowercased with each space character replaced by '_' (core: after
\* stripping the ends), for the same date range, is what a read under the
\* other name returns.
C10_KeyNormalization ==
  got # None =>
    \A k \in DOMAIN cache :
      (/\ CodeNormalize(variant, DocTool(cache[k])) = CodeNormalize(variant, got.tool_name)
       /\ DocRange(cache[k]) = got.date_range
       /\ now - cache[k].cached_at < cache_duration)
      => got.value = cache[k].results

\* a read under one spelling returned the result stored under another
C10_Witness ==
  /\ got # None
  /\ got.value # None
  /\ \E k \in DOMAIN cache :
        /\ cache[k].results = got.value
        /\ DocTool(cache[k]) # got.tool_name

\* the registry descriptor of the tool requires authentication
AuthRequired(tool_name) ==
  has_api_endpoint(tool_name) /\ get_endpoint(tool_name).auth_required

IsPlaceholder(r) == "source" \in DOMAIN r /\ r.source = "api"

\* C3: a research that missed the cache for a tool whose registry descriptor
\* requires authentication has invoked the web research, and neither returns
\* nor writes an API placeholder; no cache document of such a tool holds one.
C3_FallbackOrdering ==
  /\ \A p \in Callers :
       LET c == calls[p] IN
       (c.pc = "returned" /\ c.cached = None /\ AuthRequired(c.tool_name)) =>
         /\ InTrace(c, "kickoff")
         /\ ~IsPlaceholder(c.result)
         /\ "saved" \in DOMAIN c => ~IsPlaceholder(c.saved)
  /\ \A k \in DOMAIN cache :
       AuthRequired(DocTool(cache[k])) => ~IsPlaceholder(cache[k].results)

\* a research of the tool with an endpoint and auth_required went through the
\* API branch and then the web research
C3_Witness ==
  \E p \in Callers :
    LET c == calls[p] IN
    /\ c.pc = "returned"
    /\ c.cached = None
    /\ c.tool_name = "Lock"
    /\ InTrace(c, "api")
    /\ InTrace(c, "kickoff")

\* success=false, an error and an empty updates sequence
FailureShape(r) ==
  /\ ~r.success
  /\ "error" \in DOMAIN r
  /\ "updates" \in DOMAIN r
  /\ r.updates = <<>>

\* the research output holds no JSON object, no negative marker and no
\* section, and nothing was made of it
Unusable(c) ==
  /\ ~c.raised
  /\ c.output.json.kind # "dict"
  /\ ~HasNoUpdatesPattern(c.output.raw)
  /\ ParseStructured(c.output.raw) = <<>>
  /\ "updates" \in DOMAIN c.result => c.result.updates = <<>>

C5_FailureResultInvariant ==
  \A p \in Callers :
    LET c == calls[p] IN
    (c.pc = "returned" /\ ~c.result.success) =>
      /\ "error" \in DOMAIN c.result
      /\ c.result.error # ""
      /\ "updates" \in DOMAIN c.result
      /\ c.result.updates = <<>>

\* C6: every update record of a returned result has a non-empty feature_name.
C6_UpdateRecordInvariant ==
  \A p \in Callers :
    LET c == calls[p] IN
    (c.pc = "returned" /\ "updates" \in DOMAIN c.result) =>
      \A n \in 1..Len(c.result.updates) : HasFeatureName(c.result.updates[n])

InLog(kind, i) == \E n \in 1..Len(stack.log) : stack.log[n] = <<kind, i>>

\* C7: a stack run is never aborted by a fault in one tool; in the aggregate
\* it returns, every tool of the list was researched and has an entry, and
\* the entry of a tool whose research raised has success=false.
C7_StackResilience ==
  /\ stack.pc # "aborted"
  /\ stack.pc = "done" =>
       \A i \in 1..Len(stack.tools) :
         LET tool_name == ToolNameOf(stack.tools[i]) IN
         /\ InLog("research", i)
         /\ tool_name \in DOMAIN stack.aggregate.results
         /\ InLog("failed", i) => ~Succeeded(stack.aggregate.results[tool_name])

\* a finished run in which a tool's research raised and a later tool's
\* research returned and was recorded
C7_Witness ==
  /\ stack.pc = "done"
  /\ \E i, j \in 1..Len(stack.tools) :
        /\ i < j
        /\ InLog("failed", i)
        /\ InLog("recorded", j)

\* C8: a research whose cache read returned a result has returned that result
\* having done nothing but the read: no registry lookup, no kickoff, no write.
C8_CacheHitTerminal ==
  \A p \in Callers :
    LET c == calls[p] IN
    ("cached" \in DOMAIN c /\ c.cached # None) =>
      /\ c.pc = "returned"
      /\ c.result = c.cached
      /\ c.trace = <<"load">>

\* a research was served a cached failure
C8_Witness ==
  \E p \in Callers :
    LET c == calls[p] IN
    /\ c.pc = "returned"
    /\ c.cached # None
    /\ ~c.cached.success

\* C9: a research that completed without a cache hit made exactly one cache
\* write, of the result it returns and under the requested tool and range,
\* after its cache read and as its last step; when the write went through,
\* the document under the key holds that result.
C9_CacheWriteOnCompletion ==
  \A p \in Callers :
    LET c == calls[p] IN
    (c.pc = "returned" /\ c.cached = None) =>
      /\ "saved" \in DOMAIN c
      /\ c.saved = c.result
      /\ Cardinality({n \in 1..Len(c.trace) : c.trace[n] = "save"}) = 1
      /\ c.trace[1] = "load"
      /\ c.trace[Len(c.trace)] = "save"
      /\ c.written =>
           LET file == SaveFile(variant, c.tool_name, c.date_range) IN
           /\ file \in DOMAIN cache
           /\ cache[file].results = c.result
           /\ DocRange(cache[file]) = c.date_range

\* a research that failed wrote its failure result and returned it
C9_Witness ==
  \E p \in Callers :
    LET c == calls[p] IN
    /\ c.pc = "returned"
    /\ c.cached = None
    /\ "saved" \in DOMAIN c
    /\ c.written
    /\ ~c.result.success

\* C11: after any sequence of writes, a read for a tool and date range made
\* before the freshness window of the last write for that tool and range has
\* elapsed returns the result of that write, and the document read carries
\* the time of that write as cached_at.
C11_PutOverwrites ==
  got # None =>
    LET subject == Subject(got.tool_name, got.date_range) IN
    (subject \in DOMAIN last_put
       /\ now - last_put[subject].cached_at < cache_duration) =>
      /\ got.value = last_put[subject].results
      /\ cache[LoadFile(variant, got.tool_name, got.date_range)].cached_at
           = last_put[subject].cached_at

\* the line that holds a "no results" marker
MarkerLine == [text |-> "No Updates Found", field |-> "", value |-> ""]

HasMarker(ps) == \E i \in 1..Len(ps) : ps[i] = MarkerLine

\* the runs of lines between delimiters
RECURSIVE SplitPieces(_, _)
SplitPieces(ps, current) ==
  IF ps = <<>> THEN <<current>>
  ELSE IF Head(ps) = Delimiter THEN <<current>> \o SplitPieces(Tail(ps), <<>>)
  ELSE SplitPieces(Tail(ps), Append(current, Head(ps)))

SectionsOf(ps) == SplitPieces(ps, <<>>)

\* the value of the last line of the section that maps to the field
LastValue(section, field) ==
  LET at == {i \in 1..Len(section) : section[i].field = field} IN
  IF at = {} THEN ""
  ELSE section[CHOOSE i \in at : \A j \in at : j <= i].value

IsNamed(section) == LastValue(section, "feature_name") # ""

\* the sections that end up with a non-empty feature name, in input order
NamedSections(ps) == SelectSeq(SectionsOf(ps), IsNamed)

\* the record of a section: each field some line maps to, with the value of
\* the last such line
RecordOf(section) ==
  [f \in {section[i].field : i \in 1..Len(section)} \ {""} |-> LastValue(section, f)]

NameOf(update) == IF "feature_name" \in DOMAIN update THEN update.feature_name ELSE ""

NamesOf(updates) == [i \in 1..Len(updates) |-> NameOf(updates[i])]

\* C12: for a text that holds a "no results" marker in any letter case, the
\* parser returns the empty sequence whatever sections the text also holds,
\* and parses nothing further.
C12_NegativeMarkerPrecedence ==
  (parser_out # None /\ HasMarker(pieces)) =>
    /\ parser_out.updates = <<>>
    /\ ~parser_out.second_pass

\* the parser ran on a text with a marker and a section with a feature name
C12_Witness ==
  /\ parser_out # None
  /\ HasMarker(pieces)
  /\ NamedSections(pieces) # <<>>

\* C13 as stated: for a text without marker the parser returns one record per
\* section with a non-empty feature name, in the order of the sections.
C13_AsStated ==
  (parser_out # None /\ ~HasMarker(pieces)) =>
    NamesOf(parser_out.updates)
      = [i \in 1..Len(NamedSections(pieces)) |->
           LastValue(NamedSections(pieces)[i], "feature_name")]

\* C13 amended: the same, for a text in which some section has a non-empty
\* feature name, and in final for every text without marker.
C13_SectionOrder ==
  (parser_out # None /\ ~HasMarker(pieces)
     /\ (variant = "final" \/ NamedSections(pieces) # <<>>)) =>
    /\ ~parser_out.second_pass
    /\ NamesOf(parser_out.updates)
         = [i \in 1..Len(NamedSections(pieces)) |->
              LastValue(NamedSections(pieces)[i], "feature_name")]

\* the parser returned Webhook Support then OAuth for two sections so named
C13_Witness ==
  /\ parser_out # None
  /\ ~HasMarker(pieces)
  /\ NamesOf(parser_out.updates) = <<"Webhook Support", "OAuth">>
  /\ Len(SectionsOf(pieces)) >= 2

\* C14 as stated: a text none of whose sections has a line that maps to
\* feature_name with a non-empty value makes the parser return the empty
\* sequence.
C14_AsStated ==
  (parser_out # None /\ \A i \in 1..Len(SectionsOf(pieces)) :
                          \A n \in 1..Len(SectionsOf(pieces)[i]) :
                            ~(SectionsOf(pieces)[i][n].field = "feature_name"
                              /\ SectionsOf(pieces)[i][n].value # ""))
    => parser_out.updates = <<>>

\* C14 amended: the section loop makes no record of a section without a
\* non-empty feature name; for a text made only of such sections final
\* returns the empty sequence, and root returns the empty sequence or the
\* non-empty list its second structuring pass produced.
C14_MissingFeatureNameDrop ==
  parser_out # None =>
    /\ ~parser_out.second_pass =>
         /\ Len(parser_out.updates) <= Len(NamedSections(pieces))
         /\ \A n \in 1..Len(parser_out.updates) : NameOf(parser_out.updates[n]) # ""
    /\ NamedSections(pieces) = <<>> =>
         \/ parser_out.updates = <<>>
         \/ /\ variant = "root"
            /\ parser_out.second_pass
            /\ ~HasMarker(pieces)
            /\ \E analysis \in AnalysisOutputs : parser_out.updates = AnalysisUpdates(analysis)

\* the parser returned nothing for a text without marker that holds a
\* Description line and no feature name
C14_Witness ==
  /\ parser_out # None
  /\ ~HasMarker(pieces)
  /\ NamedSections(pieces) = <<>>
  /\ \E i \in 1..Len(pieces) : pieces[i].field = "description"
  /\ parser_out.updates = <<>>

\* C15: the record of a section carries, for each field, the value of the
\* last line of that section that maps to it, and no field of another
\* section: the records returned are exactly the records of the sections.
C15_LastWriteWins ==
  (parser_out # None /\ ~HasMarker(pieces) /\ ~parser_out.second_pass) =>
    parser_out.updates
      = [i \in 1..Len(NamedSections(pieces)) |-> RecordOf(NamedSections(pieces)[i])]

\* a section with two different feature names gave a record with the second,
\* and the record of another section carries that section's own name
C15_Witness ==
  /\ parser_out # None
  /\ ~HasMarker(pieces)
  /\ \E i \in 1..Len(NamedSections(pieces)) :
        LET section == NamedSections(pieces)[i] IN
        /\ \E m, n \in 1..Len(section) :
              /\ m < n
              /\ section[m].field = "feature_name"
              /\ section[n].field = "feature_name"
              /\ section[m].value # section[n].value
              /\ section[m].value # ""
              /\ parser_out.updates[i].feature_name = section[n].value
              /\ \E j \in 1..Len(parser_out.updates) :
                    /\ j # i
                    /\ parser_out.updates[j].feature_name # section[n].value

\* the registry descriptor of the tool has an endpoint and needs no auth
OpenEndpoint(tool_name) ==
  /\ has_api_endpoint(tool_name)
  /\ get_endpoint(tool_name).endpoint # ""
  /\ ~get_endpoint(tool_name).auth_required

\* the research returned the API placeholder of the tool's endpoint without
\* any web research, and wrote it to the cache
PlaceholderReturned(c) ==
  /\ c.result.success
  /\ IsPlaceholder(c.result)
  /\ c.result.endpoint = get_endpoint(c.tool_name).endpoint
  /\ ~InTrace(c, "kickoff")
  /\ ~InTrace(c, "analysis")
  /\ c.saved = c.result
  /\ LET file == SaveFile(variant, c.tool_name, c.date_range) IN
     file \in DOMAIN cache /\ cache[file].results = c.result

\* C16 as stated: every research that missed the cache for a tool with an
\* open endpoint returned and cached the placeholder, without web research.
C16_AsStated ==
  \A p \in Callers :
    LET c == calls[p] IN
    (c.pc = "returned" /\ c.cached = None /\ OpenEndpoint(c.tool_name)) =>
      PlaceholderReturned(c)

\* C16 amended: the same in the classes that consult the registry (root and
\* core); in final such a research goes to the web research.
C16_UnauthenticatedEndpointTerminal ==
  \A p \in Callers :
    LET c == calls[p] IN
    (c.pc = "returned" /\ c.cached = None /\ OpenEndpoint(c.tool_name)) =>
      IF variant = "final"
      THEN InTrace(c, "kickoff") /\ ~IsPlaceholder(c.result)
      ELSE PlaceholderReturned(c)

\* a research of the tool with the open endpoint missed the cache and
\* returned the placeholder
C16_Witness ==
  \E p \in Callers :
    LET c == calls[p] IN
    /\ c.pc = "returned"
    /\ c.cached = None
    /\ c.tool_name = "Open"
    /\ InTrace(c, "api")
    /\ IsPlaceholder(c.result)

IsResearch(event) == event[1] = "research"

\* the tools whose research the run has started, in the order of the starts
Started == [k \in 1..Len(SelectSeq(stack.log, IsResearch)) |->
              SelectSeq(stack.log, IsResearch)[k][2]]

InProgress == {"load", "registry", "web", "analysis", "save"}

C18_Pacing ==
  stack.pc # "idle" =>
    \A n \in 1..Len(stack.log) :
      (IsResearch(stack.log[n]) /\ stack.log[n][2] > 1) =>
        \E m \in 1..(n - 1) : stack.log[m] = <<"sleep", stack.log[n][2] - 1>>

\* the file holds something other than a document with a cached_at date
\* and results
IsDamaged(doc) ==
  \/ "invalid" \in DOMAIN doc
  \/ "bad_cached_at" \in DOMAIN doc
  \/ "cached_at" \notin DOMAIN doc
  \/ "results" \notin DOMAIN doc

\* C19: a research whose cache read met a damaged file has not raised; the
\* read gave None and the research went on as after a miss: to the registry
\* (root, core) or the web research (final), then to the write and return.
C19_CorruptionIsMiss ==
  \A p \in Callers :
    LET c == calls[p] IN
    c.pc \notin {"idle", "load"} =>
      LET file == LoadFile(variant, c.tool_name, c.date_range) IN
      (c.pc # "returned" /\ file \in DOMAIN cache /\ IsDamaged(cache[file])) =>
        /\ c.pc # "raised"
        /\ c.cached = None
        /\ c.trace[1] = "load"
        /\ c.pc \in {"registry", "web", "analysis", "save"}
        /\ (c.pc = "registry") => (variant # "final")

\* C20: a cache write that fails moves the research to its return, with the
\* result it held before the write; nothing is raised to the caller.
C20_BestEffortWrites ==
  [][\A p \in Callers :
       (calls[p].pc = "save" /\ calls'[p].pc # "save" /\ ~calls'[p].written) =>
         /\ calls'[p].pc = "returned"
         /\ calls'[p].result = calls[p].result]_vars

\* a research returned a result although its cache write failed
C20_Witness ==
  \E p \in Callers :
    LET c == calls[p] IN
    /\ c.pc = "returned"
    /\ c.cached = None
    /\ "written" \in DOMAIN c
    /\ ~c.written
    /\ c.outcome = "truncated"

\* the web research of the call returned a text
GotText(c) ==
  /\ c.pc = "returned"
  /\ c.cached = None
  /\ "raised" \in DOMAIN c
  /\ ~c.raised

\* the aggregate counts under successful every recorded result with a true
\* success, the ones without updates included, and the others under failed
CountsBySuccess(aggregate) ==
  /\ aggregate.successful
       = Cardinality({k \in DOMAIN aggregate.results : Succeeded(aggregate.results[k])})
  /\ aggregate.failed = Cardinality(DOMAIN aggregate.results) - aggregate.successful

\* C21 as stated: a research whose text is a negative answer, or a text with
\* no extractable section, returns success=true with no updates, and the
\* stack aggregate counts such results as successful.
C21_AsStated ==
  /\ \A p \in Callers :
       LET c == calls[p] IN
       (GotText(c) /\ ParseStructured(c.output.raw) = <<>>) =>
         (c.result.success /\ c.result.updates = <<>>)
  /\ stack.pc = "done" => CountsBySuccess(stack.aggregate)

\* C21 amended: a negative answer gives success=true with no updates; a text
\* without marker and without extractable section gives success=true with
\* no updates unless the second structuring pass returned a non-empty list,
\* which then is the updates; the aggregate counts both as successful.
C21_EmptyFindingsAreSuccess ==
  /\ \A p \in Callers :
       LET c == calls[p] IN
       (GotText(c) /\ ParseStructured(c.output.raw) = <<>>) =>
         /\ c.result.success
         /\ HasNoUpdatesPattern(c.output.raw) =>
              (c.result.updates = <<>> /\ ~InTrace(c, "analysis"))
         /\ c.result.updates # <<>> =>
              /\ InTrace(c, "analysis")
              /\ \E analysis \in AnalysisOutputs : c.result.updates = AnalysisUpdates(analysis)
  /\ stack.pc = "done" =>
       /\ CountsBySuccess(stack.aggregate)
       /\ \A k \in DOMAIN stack.aggregate.results :
            LET r == stack.aggregate.results[k] IN
            ("raw_output" \in DOMAIN r /\ HasNoUpdatesPattern(r.raw_output)) =>
              (Succeeded(r) /\ r.updates = <<>>)

\* a run over a tool with a negative answer and a tool with two sections
\* finished with successful=2 and failed=0
C21_Witness ==
  /\ stack.pc = "done"
  /\ stack.aggregate.successful = 2
  /\ stack.aggregate.failed = 0
  /\ \E a, b \in DOMAIN stack.aggregate.results :
        /\ HasNoUpdatesPattern(stack.aggregate.results[a].raw_output)
        /\ stack.aggregate.results[a].updates = <<>>
        /\ Len(stack.aggregate.results[b].updates) = 2

\* both callers missed the cache for the same tool and range, researched,
\* wrote and returned
BothCompleted ==
  /\ \A p \in Callers :
       /\ calls[p].pc = "returned"
       /\ calls[p].cached = None
       /\ InTrace(calls[p], "kickoff")
  /\ \A p, q \in Callers :
       SaveFile(variant, calls[p].tool_name, calls[p].date_range)
         = SaveFile(variant, calls[q].tool_name, calls[q].date_range)

\* C22: once two concurrent researches of the same tool and range have both
\* missed, researched, written and returned, the document under their key is
\* the complete document of the one that wrote last, not a mixture.
C22_LastWriteWins ==
  BothCompleted =>
    \A p \in Callers :
      LET c == calls[p]
          file == SaveFile(variant, c.tool_name, c.date_range)
          last == last_put[Subject(c.tool_name, c.date_range)]
      IN /\ file \in DOMAIN cache
         /\ ~IsDamaged(cache[file])
         /\ cache[file].results = last.results
         /\ cache[file].cached_at = last.cached_at
         /\ \E q \in Callers : last.results = calls[q].result

\* the fields the section loop can set
RecordFields ==
  {"feature_name", "release_date", "source_url", "description", "automation_value"}

\* C23: whatever the text (no delimiter, no colon, empty keys, empty values,
\* no text at all), the parser raises nothing and returns a sequence, empty
\* or not, whose items out of the section loop are records of the five
\* fields with a non-empty feature name.
C23_ParserTotality ==
  parser_out # None =>
    /\ ~parser_out.raised
    /\ Len(parser_out.updates) >= 0
    /\ ~parser_out.second_pass =>
         \A n \in 1..Len(parser_out.updates) :
           /\ DOMAIN parser_out.updates[n] \subseteq RecordFields
           /\ NameOf(parser_out.updates[n]) # ""

\* the parser returned the empty sequence for a text without delimiter made
\* of a line without colon and a line with an empty key and an empty value
C23_Witness ==
  /\ parser_out # None
  /\ ~parser_out.raised
  /\ parser_out.updates = <<>>
  /\ \E i, j \in 1..Len(pieces) :
        /\ pieces[i].text = "plain text"
        /\ pieces[j].text = ":"
  /\ \A i \in 1..Len(pieces) : ~Contains(pieces[i].text, "---")

\* a line that consists of three or more hyphens
HyphenLine(text) ==
  Len(text) >= 3 /\ \A i \in 1..Len(text) : SubSeq(text, i, i) = "-"

\* the runs of lines between lines of hyphens
RECURSIVE LineSections(_, _)
LineSections(ps, current) ==
  IF ps = <<>> THEN <<current>>
  ELSE IF HyphenLine(Head(ps).text) THEN <<current>> \o LineSections(Tail(ps), <<>>)
  ELSE LineSections(Tail(ps), Append(current, Head(ps)))

\* those of them that end up with a non-empty feature name, in input order
NamedLineSections(ps) == SelectSeq(LineSections(ps, <<>>), IsNamed)

\* some line of other text holds three hyphens in a row
InlineHyphens(ps) ==
  \E i \in 1..Len(ps) : ~HyphenLine(ps[i].text) /\ Contains(ps[i].text, "---")

\* the fields the lines of a section map to under the priority table
FieldsOf(section) == {section[i].field : i \in 1..Len(section)} \ {""}

\* C24: in a text without hyphens inside a line, the record of a section
\* holds exactly the fields that the priority table gives its lines: a key
\* that matches several rules sets the field of the first rule only, and a
\* key that matches none sets nothing.
C24_KeyToFieldPriority ==
  (parser_out # None /\ ~parser_out.second_pass /\ ~InlineHyphens(pieces)) =>
    /\ Len(parser_out.updates) = Len(NamedLineSections(pieces))
    /\ \A i \in 1..Len(parser_out.updates) :
         DOMAIN parser_out.updates[i] = FieldsOf(NamedLineSections(pieces)[i])

\* a section of a 'Source Name' line and a 'Feature Description' line gave a
\* record with feature_name as its only field
C24_Witness ==
  /\ parser_out # None
  /\ ~parser_out.second_pass
  /\ \E i, j \in 1..Len(pieces) :
        /\ pieces[i].text = "Source Name: Webhook Support"
        /\ pieces[j].text = "Feature Description: OAuth"
  /\ Len(parser_out.updates) = 1
  /\ DOMAIN parser_out.updates[1] = {"feature_name"}

\* C25: the records returned are those of the sections that the lines of
\* three or more hyphens delimit; hyphens inside a line of other text start
\* no section.
C25_SectionDelimiter ==
  (parser_out # None /\ ~parser_out.second_pass) =>
    parser_out.updates
      = [i \in 1..Len(NamedLineSections(pieces)) |-> RecordOf(NamedLineSections(pieces)[i])]

\* C26: in a text without hyphens inside a line, each field of a record holds
\* what follows the first colon of the last line that set it, later colons
\* included, trimmed and in its own letter case.
C26_FirstColonSplit ==
  (parser_out # None /\ ~parser_out.second_pass /\ ~InlineHyphens(pieces)) =>
    \A i \in 1..Len(parser_out.updates) :
      /\ i <= Len(NamedLineSections(pieces))
      /\ \A f \in DOMAIN parser_out.updates[i] :
           parser_out.updates[i][f] = LastValue(NamedLineSections(pieces)[i], f)

\* a 'Source URL: https://host/path' line gave the value 'https://host/path'
\* in a record whose name kept its capitals
C26_Witness ==
  /\ parser_out # None
  /\ ~parser_out.second_pass
  /\ \E i \in 1..Len(pieces) : pieces[i].text = "Source URL: https://host/path"
  /\ Len(parser_out.updates) = 1
  /\ parser_out.updates[1].source_url = "https://host/path"
  /\ parser_out.updates[1].feature_name \in {"Webhook Support", "OAuth"}

\* C27: a write for a tool and date range leaves what a read returns for
\* the same tool and any other date range as it was.
C27_OneEntryPerRange ==
  [][\A s \in DOMAIN last_put : \A w \in DOMAIN last_put' :
       (/\ w[1] = s[1]
        /\ w[2] # s[2]
        /\ (w \notin DOMAIN last_put \/ last_put'[w] # last_put[w])) =>
         _load_cache(variant, cache', now', cache_duration, s[1], s[2])
           = _load_cache(variant, cache, now, cache_duration, s[1], s[2])]_vars

\* the step is the cache read of caller p
ReadBy(p) == calls[p].pc = "load" /\ calls'[p].pc # "load"

\* C28: the cache read of a research changes no file of the store, whatever
\* it found; no step deletes a file, and a file changes only in a step in
\* which a research or another instance writes the cache.
C28_ReadsAreReadOnly ==
  [][/\ (\E p \in Callers : ReadBy(p)) => cache' = cache
     /\ \A file \in DOMAIN cache :
          /\ file \in DOMAIN cache'
          /\ cache'[file] # cache[file] =>
               (calls' = calls \/ \E p \in Callers : calls[p].pc = "save")]_vars

\* a research has read a stale entry, took it for a miss and has not written
\* yet: the stale entry is still in the store
C28_Witness ==
  \E p \in Callers :
    LET c == calls[p]
        file == LoadFile(variant, c.tool_name, c.date_range)
    IN /\ c.pc \in {"registry", "web", "analysis", "save"}
       /\ c.cached = None
       /\ file \in DOMAIN cache
       /\ ~IsDamaged(cache[file])
       /\ now - cache[file].cached_at >= cache_duration

\* every write made so far for the tool was for this date range
OnlyRangeWritten(tool_name, date_range) ==
  \A s \in DOMAIN last_put :
    s[1] = Subject(tool_name, date_range)[1] => s[2] = date_range

\* C29: what the cache read of a research finds depends on the tool name and
\* the date range of the call only. When the store holds a usable result for
\* them, the call returns that result without registry lookup or research,
\* whatever its depth and tool type; and when the tool was researched for
\* this range only, the last time within the freshness window, the call
\* returns the result of that research, whatever depth and tool type it had.
C29_DepthAndTypeIgnored ==
  [][\A p \in Callers :
       (ReadBy(p) /\ IsStr(calls[p].tool_name)) =>
         LET c == calls[p]
             cached == _load_cache(variant, cache, now, cache_duration,
                                   c.tool_name, c.date_range)
             subject == Subject(c.tool_name, c.date_range)
         IN /\ (cached # KeyError /\ CacheHit(cached)) =>
                 /\ calls'[p].pc = "returned"
                 /\ calls'[p].result = cached
                 /\ calls'[p].trace = <<"load">>
            /\ (/\ subject \in DOMAIN last_put
                /\ OnlyRangeWritten(c.tool_name, c.date_range)
                /\ now - last_put[subject].cached_at < cache_duration) =>
                 /\ calls'[p].pc = "returned"
                 /\ calls'[p].result = last_put[subject].results
                 /\ calls'[p].trace = <<"load">>]_vars

\* a call with depth deep and type erp returned from the cache the result
\* of a research made with depth quick for type crm
C29_Witness ==
  \E p \in Callers :
    LET c == calls[p] IN
    /\ c.pc = "returned"
    /\ c.depth = "deep"
    /\ c.tool_type = "erp"
    /\ c.trace = <<"load">>
    /\ c.result = c.cached
    /\ "research_depth" \in DOMAIN c.result
    /\ c.result.research_depth = "quick"
    /\ c.result.tool_type = "crm"

\* C30: a research whose tool and date range were written to the cache less
\* than the freshness window ago returns the result last written for them,
\* and does no registry lookup and no research.
C30_RepeatServedFromCache ==
  [][\A p \in Callers :
       (ReadBy(p) /\ IsStr(calls[p].tool_name)) =>
         LET c == calls[p]
             subject == Subject(c.tool_name, c.date_range)
         IN (subject \in DOMAIN last_put
               /\ now - last_put[subject].cached_at < cache_duration) =>
              /\ calls'[p].pc = "returned"
              /\ calls'[p].result = last_put[subject].results
              /\ calls'[p].trace = <<"load">>]_vars

\* the number of times the run started the research of its i-th tool
TimesResearched(i) ==
  Cardinality({n \in 1..Len(stack.log) : stack.log[n] = <<"research", i>>})

\* C31: a stack run that has been called ends by returning its aggregate,
\* and by then it has started the research of each supplied tool exactly
\* once.
C31_StackTermination ==
  /\ (stack.pc # "idle") ~> (stack.pc = "done")
  /\ [](stack.pc = "done" =>
          /\ "aggregate" \in DOMAIN stack
          /\ stack.aggregate.total_tools = Len(stack.tools)
          /\ \A i \in 1..Len(stack.tools) : TimesResearched(i) = 1)

\* a run over two tools, one of which raised, returned its aggregate
C31_Witness ==
  /\ stack.pc = "done"
  /\ Len(stack.tools) = 2
  /\ TimesResearched(1) = 1
  /\ TimesResearched(2) = 1
  /\ \E n \in 1..Len(stack.log) : stack.log[n][1] = "failed"

\* C32: in the aggregate a stack run returns, successful + failed is the
\* number of tools supplied and the results mapping has one entry per
\* supplied tool.
C32_AggregateCounts ==
  stack.pc = "done" =>
    /\ stack.aggregate.successful + stack.aggregate.failed = stack.aggregate.total_tools
    /\ stack.aggregate.total_tools = Len(stack.tools)
    /\ Cardinality(DOMAIN stack.aggregate.results) = Len(stack.tools)

\* the number of times the call took the step
TimesIn(c, step) == Cardinality({n \in 1..Len(c.trace) : c.trace[n] = step})

\* the call has started: it has a trace
Tracing(c) == c.pc # "idle"

\* C33 as stated: a research invokes the text-generation capability at most
\* once, whatever the text it returns.
C33_AsStated ==
  \A p \in Callers :
    LET c == calls[p] IN
    Tracing(c) => TimesIn(c, "kickoff") + TimesIn(c, "analysis") <= 1

\* C33 amended: a research runs the research task at most once and never
\* repeats it; in root, when the text holds no marker and gave no named
\* section, it runs the analysis task once after it, so that the capability
\* is invoked at most twice; in core and final at most once.
C33_NoRetries ==
  \A p \in Callers :
    LET c == calls[p] IN
    Tracing(c) =>
      /\ TimesIn(c, "kickoff") <= 1
      /\ TimesIn(c, "analysis") <= 1
      /\ InTrace(c, "analysis") =>
           /\ variant = "root"
           /\ InTrace(c, "kickoff")
           /\ ~c.raised
           /\ ~HasNoUpdatesPattern(c.output.raw)
           /\ ParseStructured(c.output.raw) = <<>>

\* a research in root returned after one research task and one analysis
\* task
C33_Witness ==
  \E p \in Callers :
    LET c == calls[p] IN
    /\ c.pc = "returned"
    /\ variant = "root"
    /\ TimesIn(c, "kickoff") = 1
    /\ TimesIn(c, "analysis") = 1
    /\ c.result.success

\* the API branch of the call ran and failed
ApiFailed(c) == "api_results" \in DOMAIN c /\ ~c.api_results.success

\* C34: a research whose API branch failed went on to the web research; what
\* it holds as result, returns and writes to the cache is the result of the
\* web research, never the failure of the API branch, and no cache document
\* holds a result with needs_setup.
C34_ApiFailureNeverFinal ==
  /\ \A p \in Callers :
       LET c == calls[p] IN
       (Tracing(c) /\ ApiFailed(c)) =>
         /\ c.pc \in {"web", "analysis", "save", "returned"}
         /\ "result" \in DOMAIN c =>
              /\ InTrace(c, "kickoff")
              /\ c.result # c.api_results
              /\ "needs_setup" \notin DOMAIN c.result
              /\ ~IsPlaceholder(c.result)
              /\ "error" \in DOMAIN c.result => c.result.error # c.api_results.error
         /\ c.pc = "returned" =>
              /\ c.saved = c.result
              /\ cache[SaveFile(variant, c.tool_name, c.date_range)].results = c.result
  /\ \A file \in DOMAIN cache :
       /\ "needs_setup" \notin DOMAIN cache[file].results
       /\ "error" \in DOMAIN cache[file].results =>
            cache[file].results.error # "No API endpoint available"

\* a research of the tool that requires authentication returned and cached
\* the failure of its web research
C34_Witness ==
  \E p \in Callers :
    LET c == calls[p] IN
    /\ c.pc = "returned"
    /\ c.tool_name = "Lock"
    /\ ApiFailed(c)
    /\ c.api_results.needs_setup
    /\ ~c.result.success
    /\ c.saved = c.result

\* C35: once the research phase has built the enriched tools, the
\* research_result of each is the result the stack run recorded under the
\* tool's name, and its update_count is the number of updates of that result
\* when the result is successful.
C35_ResultsReachAnalysis ==
  stack.pc = "enriched" =>
    \A i \in 1..Len(stack.tools) :
      LET recorded == stack.aggregate.results[stack.tools[i].name] IN
      /\ stack.enriched[i].research_result = recorded
      /\ (Succeeded(recorded) /\ "updates" \in DOMAIN recorded) =>
           stack.enriched[i].update_count = Len(recorded.updates)

====
